---- MODULE Spec2Model ----
(***************************************************************************)
(* Model of baseballstatsapp: the game-file import                         *)
(* (src/app/xml_parser.py, src/app/models.py), the game forms and the      *)
(* statistics aggregators (src/app/routes.py).                             *)
(*                                                                         *)
(* The store is a set of tables.  `db` holds the committed rows; `own[p]`  *)
(* holds the rows session p has added or changed in its open transaction   *)
(* (db.session.add / flush / attribute assignment) and not yet committed.  *)
(* A query of session p reads View(p): the committed rows overlaid with    *)
(* its own ones (autoflush makes pending rows visible to the session's     *)
(* queries, so add and add+flush are modelled alike).                      *)
(*                                                                         *)
(* parse_game_xml is a step machine per session: pc[p] is the place in     *)
(* the function, the other per-session variables are its locals.           *)
(*                                                                         *)
(* The parser filters and creates Team by `league_id`; models.py names the *)
(* same scope column `season_id`.  The model has one field, `scope`.       *)
(***************************************************************************)
EXTENDS Integers, Sequences, FiniteSets, TLC

\* The number of parse_game_xml calls and form requests made in one
\* behaviour.
MaxCalls == 3

\* The number of stat lines handed to an aggregator.
MaxLines == 2

\* Python's None: an absent element or attribute.
None == "<None>"

Procs == {1, 2}

----------------------------------------------------------------------------
\* Attribute coercion (xml_parser.py 11-29)

Numerals == {"0", "1", "2", "3", "4", "5", "7", "9"}

IntOfNumeral(s) ==
    CASE s = "0" -> 0 [] s = "1" -> 1 [] s = "2" -> 2 [] s = "3" -> 3
      [] s = "4" -> 4 [] s = "5" -> 5 [] s = "7" -> 7 [] s = "9" -> 9

\* _int(val, default): int(val) if val else default; default on ValueError.
IntDflt(val, default) ==
    IF val = None \/ val = "" THEN default
    ELSE IF val \in Numerals THEN IntOfNumeral(val) ELSE default

Int0(val) == IntDflt(val, 0)

\* The decimal texts of the files, and the number each denotes, in tenths:
\* a float with one decimal is held as its integer number of tenths.
Decimals == {"0.0", "0.1", "3.2", "4", "4.1", "4.5"}

TenthsOfDecimal(s) ==
    CASE s = "0.0" -> 0 [] s = "0.1" -> 1 [] s = "3.2" -> 32 [] s = "4" -> 40
      [] s = "4.1" -> 41 [] s = "4.5" -> 45

\* _float(val): float(val) if val else 0.0; 0.0 on ValueError.
Float0(val) ==
    IF val = None \/ val = "" THEN 0
    ELSE IF val \in Decimals THEN TenthsOfDecimal(val) ELSE 0

\* elem.get(name, default) for an attribute that may be absent.
Get(val, default) == IF val = None THEN default ELSE val

\* Python truthiness of a str-or-None value.
Truthy(val) == val # None /\ val # ""

\* _bool_yn in the place of bool(): true for the text that says yes.
BoolYes(val) == val \in {"Y", "y", "1"}

\* bool(win_str), xml_parser.py 289-291
Bool(val) == val # ""

----------------------------------------------------------------------------
\* The input files.  A file is what lxml hands to the parser:
\*   venue    whether <venue> is present, with its date and start attributes
\*   dhgame   the doubleheader number the file is about (no code reads it)
\*   teams    the <team> blocks in document order
\*   plays    the <play> elements in document order, flattened with the
\*            number of their <inning> and the vh of their <batting>

\* <hitting>: the attributes ab, r, h, rbi and double.
Hit(ab, r, h, rbi, double) ==
    [present |-> TRUE, ab |-> ab, r |-> r, h |-> h, rbi |-> rbi, double |-> double]

NoLine ==
    [present |-> FALSE, runs |-> None, hits |-> None, errs |-> None, lob |-> None,
     lineinn |-> <<>>]
Line(runs, hits, errs, lob, inns) ==
    [present |-> TRUE, runs |-> runs, hits |-> hits, errs |-> errs, lob |-> lob,
     lineinn |-> inns]
Inn(n, s) == [inn |-> n, score |-> s]

\* <pitching>: the attributes ip, h, er, bb, win, loss and save.
NoPitch ==
    [present |-> FALSE, ip |-> None, h |-> None, er |-> None, bb |-> None,
     win |-> None, loss |-> None, save |-> None]
Pitch(ip, h, er, bb, win, loss, save) ==
    [present |-> TRUE, ip |-> ip, h |-> h, er |-> er, bb |-> bb,
     win |-> win, loss |-> loss, save |-> save]

PlayerXml(name, uni, gp, pid, bats, hitting, fielding, pitching) ==
    [name |-> name, uni |-> uni, gp |-> gp, playerId |-> pid, bats |-> bats,
     hitting |-> hitting, fielding |-> fielding, pitching |-> pitching]

TeamXml(vh, code, id, name, linescore, players) ==
    [vh |-> vh, code |-> code, id |-> id, name |-> name,
     linescore |-> linescore, players |-> players]

\* sub: the who/pos/for attributes of the play's <sub> element, when present.
PlayXml(number, vh, seq, batter, narrative, sub) ==
    [number |-> number, vh |-> vh, seq |-> seq, batter |-> batter,
     narrative |-> narrative, sub |-> sub]

NoSub == [present |-> FALSE, who |-> None, pos |-> None, for |-> None]
Sub(who, pos, for) == [present |-> TRUE, who |-> who, pos |-> pos, for |-> for]

FileXml(venue, date, start, dhgame, teams, plays) ==
    [venue |-> venue, date |-> date, start |-> start, dhgame |-> dhgame,
     teams |-> teams, plays |-> plays]

FileNames == {"g1", "g1b", "g2", "novenue", "onlyV", "vx", "hh"}

FileOf(n) ==
    CASE n = "g1" ->
           \* game 1 of a doubleheader, A at B
           FileXml(TRUE, "d1", "s1", 1,
             << TeamXml("V", "A", "xa", "Ayes",
                   Line("0", "4", "1", "3", << Inn("1", "0") >>),
                   << PlayerXml("p1", "7", "1", None, "R",
                                Hit("3", "1", "3", "3", "1"), FALSE, NoPitch) >>),
                TeamXml("H", "B", "xb", "Bees",
                   Line("5", "7", "0", "2", << Inn("1", "5") >>),
                   << PlayerXml("p2", "9", "1", "e2", "L",
                                Hit("4", "x", "1", None, ""), TRUE,
                                Pitch("4.1", "2", "1", "1", "Y", None, "")) >>) >>,
             << PlayXml("1", "V", "1", "p1", "single", NoSub) >>)
      [] n = "g1b" ->
           \* game 2 of the same doubleheader: the key of g1, other contents
           FileXml(TRUE, "d1", "s1", 2,
             << TeamXml("V", "A", "ya", "Aces",
                   Line("2", "x", "", None, << Inn("1", "2"), Inn("2", "0") >>),
                   << PlayerXml("p1", "7", "1", "e1", "L",
                                Hit("2", "0", "0", "0", "0"), TRUE, NoPitch),
                      PlayerXml("p3", "3", "1", "e3", "R",
                                Hit("1", "1", "1", "2.0", None), FALSE, NoPitch) >>),
                TeamXml("H", "B", "xb", "Bees",
                   Line("1", "1", "1", "1", << Inn("1", "1") >>),
                   << PlayerXml("p2", "9", "1", "e2", "L",
                                Hit("3", "2", "2", "1", "1"), FALSE,
                                Pitch("3.2", "1", "0", "0", "N", "", "Y")) >>) >>,
             << PlayXml("1", "V", "1", "p3", "walk", NoSub),
                PlayXml("1", "H", "1", None, None, Sub("p2", "lf", "p5")) >>)
      [] n = "g2" ->
           \* another day, the roster of g1 with other external ids
           FileXml(TRUE, "d2", "s1", 0,
             << TeamXml("V", "A", "za", "Alphas",
                   NoLine,
                   << PlayerXml("p1", "7", "1", "e1", "S",
                                Hit("", None, "x", "1", "1"), FALSE, NoPitch) >>),
                TeamXml("H", "B", "xb", "Bees",
                   Line("3", None, "2.0", "9", << Inn("1", "3") >>),
                   << PlayerXml("p2", "9", "0", "e9", "L",
                                Hit("1", "0", "1", "0", "0"), FALSE, NoPitch) >>) >>,
             << >>)
      [] n = "novenue" ->
           FileXml(FALSE, None, None, 0,
             << TeamXml("V", "A", "xa", "Ayes", NoLine, << >>),
                TeamXml("H", "C", "xc", "Cees", NoLine, << >>) >>,
             << >>)
      [] n = "onlyV" ->
           \* fewer than two team blocks
           FileXml(TRUE, "d1", "s1", 0,
             << TeamXml("V", "C", "xc", "Cees", NoLine,
                   << PlayerXml("p4", "1", "1", None, "R",
                                Hit("1", "0", "1", "0", "0"), FALSE, NoPitch) >>) >>,
             << >>)
      [] n = "vx" ->
           \* the second block's vh is neither V nor H
           FileXml(TRUE, "d3", None, 0,
             << TeamXml("V", "B", "xb", "Bees", NoLine, << >>),
                TeamXml("X", "A", "xa", "Ayes",
                   Line("1", "2", "0", "1", << Inn("1", "1") >>),
                   << PlayerXml("p1", "7", "1", None, "R",
                                Hit("2", "1", "1", "1", "0"), FALSE, NoPitch) >>) >>,
             << PlayXml("1", "X", "1", "p1", "homer", NoSub) >>)
      [] n = "hh" ->
           \* two blocks, both home
           FileXml(TRUE, "d3", "s1", 0,
             << TeamXml("H", "A", "xa", "Ayes", NoLine, << >>),
                TeamXml("H", "C", "xc", "Cees", NoLine, << >>) >>,
             << >>)
      [] n = "box1" ->
           \* a box score with repeated innings, a player listed twice,
           \* players who did not play, and plays numbered anew per half
           FileXml(TRUE, "2024-03-05", "s1", 0,
             << TeamXml("V", "C", "xc", "Cees",
                   Line("5", "7", "0", "4",
                        << Inn("1", "2"), Inn("1", "3"), Inn("2", None) >>),
                   << PlayerXml("q1", "5", "1", None, "R",
                                Hit("2", "1", "1", "0", "0"), TRUE,
                                Pitch("4.5", "1", "1", "0", "N", None, "")),
                      PlayerXml("q1", "5", "1", "e5", "L",
                                Hit("1", "0", "0", "0", "0"), TRUE,
                                Pitch("0.1", "0", "0", "1", "", "", "Y")),
                      PlayerXml("q2", "6", "0", "e6", "L",
                                Hit("4", "2", "2", "1", "1"), TRUE,
                                Pitch("4", "3", "2", "1", "Y", "Y", "Y")),
                      PlayerXml("q3", "8", None, None, "S",
                                Hit("1", "0", "0", "0", "0"), TRUE,
                                Pitch("3.2", "0", "0", "0", None, None, None)) >>),
                TeamXml("H", "D", "xd", "Dees",
                   Line("1", "3", "2", "5", << Inn("1", "1"), Inn("3", "x") >>),
                   << PlayerXml("r1", "2", "1", "e7", "R",
                                Hit("3", "1", "2", "1", "0"), FALSE,
                                Pitch("4.1", "5", "4", "2", None, "Y", "")) >>) >>,
             << PlayXml("1", "V", "1", "q1", "single", NoSub),
                PlayXml("1", "V", "2", "q3", None, NoSub),
                PlayXml("1", "V", "3", None, None, NoSub),
                PlayXml("1", "H", "1", None, None, Sub("r1", "lf", "r2")),
                PlayXml("2", "V", "1", None, "pinch", Sub("q2", "p", "q1")),
                PlayXml("2", "H", "1", "", "", NoSub) >>)
      [] n = "box2" ->
           \* the same teams later on the same day, the home block first
           FileXml(TRUE, "2024-03-05", "s2", 0,
             << TeamXml("H", "D", "yd", "Deltas",
                   Line("2", "2", "0", "1", << Inn("1", "2"), Inn("2", "0") >>),
                   << PlayerXml("r1", "2", "1", "e8", "L",
                                Hit("2", "0", "1", "0", "0"), TRUE,
                                Pitch("0.0", "0", "0", "0", "W", "", None)) >>),
                TeamXml("V", "C", "yc", "Charlies",
                   Line("0", "1", "1", "2", << Inn("2", "0"), Inn("1", "0") >>),
                   << PlayerXml("q1", "5", "1", "e9", "S",
                                Hit("3", "0", "1", "0", "0"), FALSE,
                                Pitch("4.1", "2", "2", "2", "", "L", "")),
                      PlayerXml("q2", "6", "x", None, "R",
                                Hit("1", "0", "0", "0", "0"), TRUE, NoPitch) >>) >>,
             << PlayXml("1", "V", "1", "q1", "out", NoSub),
                PlayXml("1", "H", "1", "r1", "double", NoSub) >>)

\* A request: a file's content and the league/season scope it is imported into.
Requests == (FileNames \X {1}) \cup ({"g1", "onlyV"} \X {2})

----------------------------------------------------------------------------
\* The store (models.py).  Every row carries `imp`, the number of the
\* parse_game_xml call that created it: bookkeeping of the verification, no
\* column of the schema.

Tables == {"teams", "players", "games", "innings", "batting", "pitching",
           "fielding", "plays"}
ChildTables == {"innings", "batting", "pitching", "fielding", "plays"}

Empty == [t \in Tables |-> {}]

VARIABLES
    db,            \* committed rows, per table
    own,           \* own[p]: rows added or changed in p's open transaction
    pc,            \* pc[p]: where session p is in parse_game_xml, or "idle"
    cur,           \* cur[p]: the request (file, scope) and number of p's call
    ti,            \* index of the loop over teams_xml / over team_map
    visitor_team,  \* id of the Team bound as visitor, 0 for None
    home_team,     \* id of the Team bound as home, 0 for None
    team_map,      \* the dict vh -> (team, team_xml), in insertion order
    game,          \* id of the Game this call created, 0 before
    log,           \* per call: request, session, outcome, returned Game id,
                   \* and the place where the call ended
    table,         \* which stat table the aggregated lines come from
    rules,         \* Season.rules of the season the lines belong to
    stats,         \* the stat lines handed to the aggregator
    totals,        \* what the aggregator returned
    page           \* what the last page request answered

\* The variables of the statistics aggregators (routes.py 17-120).
agg == <<table, rules, stats, totals, page>>

vars == <<db, own, pc, cur, ti, visitor_team, home_team, team_map, game, log, agg>>

\* No aggregator has been called.
NotCalled == [ret |-> "not called"]

\* No page has been requested.
NoPage == [view |-> "none"]

\* What a query of session p reads.
Overlay(d, o) ==
    [t \in Tables |-> {r \in d[t] : ~ \E x \in o[t] : x.id = r.id} \cup o[t]]

View(p) == Overlay(db, own[p])

\* session.add of a new row, or a change of a loaded one.
Put(o, t, row) == [o EXCEPT ![t] = {r \in @ : r.id # row.id} \cup {row}]

SetMax(S) == IF S = {} THEN 0 ELSE CHOOSE x \in S : \A y \in S : y <= x

\* The primary key the storage gives the next row of table t, given the rows
\* o that the running step has already added.
NewId(o, t) ==
    1 + SetMax({r.id : r \in db[t] \cup o[t] \cup UNION {own[q][t] : q \in Procs}})

\* Query.first(): the matching row with the least primary key, or None (0).
First(S) == IF S = {} THEN 0 ELSE CHOOSE x \in {r.id : r \in S} : \A r \in S : x <= r.id

RowById(S, i) == CHOOSE r \in S : r.id = i

File(p) == FileOf(cur[p].req[1])
Scope(p) == cur[p].req[2]

Init ==
    /\ db = Empty
    /\ own = [p \in Procs |-> Empty]
    /\ pc = [p \in Procs |-> "idle"]
    /\ cur = [p \in Procs |-> [req |-> <<"g1", 1>>, call |-> 0]]
    /\ ti = [p \in Procs |-> 0]
    /\ visitor_team = [p \in Procs |-> 0]
    /\ home_team = [p \in Procs |-> 0]
    /\ team_map = [p \in Procs |-> <<>>]
    /\ game = [p \in Procs |-> 0]
    /\ log = <<>>
    /\ table = "batting"
    /\ rules = "rules_hs_sb"
    /\ stats = <<>>
    /\ totals = NotCalled
    /\ page = NoPage

\* The locals of a call are dropped when it returns or raises.
Locals == <<ti, visitor_team, home_team, team_map, game>>

\* The variables of the import and of the game forms.
imports == <<db, own, pc, cur, Locals, log>>

DropLocals(p) ==
    /\ ti' = [ti EXCEPT ![p] = 0]
    /\ visitor_team' = [visitor_team EXCEPT ![p] = 0]
    /\ home_team' = [home_team EXCEPT ![p] = 0]
    /\ team_map' = [team_map EXCEPT ![p] = <<>>]
    /\ game' = [game EXCEPT ![p] = 0]

\* The call of p ends with `outcome`, returning Game id `ret` (0: nothing).
End(p, outcome, ret) ==
    /\ pc' = [pc EXCEPT ![p] = "idle"]
    /\ log' = [log EXCEPT ![cur[p].call] =
                   [@ EXCEPT !.outcome = outcome, !.ret = ret, !.at = pc[p]]]
    /\ DropLocals(p)
    /\ UNCHANGED cur

\* parse_game_xml(xml_content, league), lines 43-49 and 70-73.
Begin(p, r) ==
    /\ pc[p] = "idle"
    /\ Len(log) < MaxCalls
    /\ cur' = [cur EXCEPT ![p] = [req |-> r, call |-> Len(log) + 1]]
    /\ IF ~ FileOf(r[1]).venue
       THEN \* raise ValueError("No <venue> element found in XML")
            /\ log' = Append(log, [req |-> r, proc |-> p, outcome |-> "ValueError", ret |-> 0,
                                  at |-> "venue"])
            /\ UNCHANGED <<pc, Locals>>
       ELSE /\ log' = Append(log, [req |-> r, proc |-> p, outcome |-> "running", ret |-> 0,
                                  at |-> "venue"])
            /\ pc' = [pc EXCEPT ![p] =
                         IF Len(FileOf(r[1]).teams) = 0 THEN "guard" ELSE "team"]
            /\ ti' = [ti EXCEPT ![p] = 1]
            /\ UNCHANGED <<visitor_team, home_team, team_map, game>>
    /\ UNCHANGED <<db, own, agg>>

----------------------------------------------------------------------------
\* Uniqueness constraints of the storage (models.py 43, 71, 115-117).  A
\* flush that inserts a row whose key a committed row holds raises
\* IntegrityError, and the session rolls its transaction back.  While
\* another session holds the key in a row it has not committed, the insert
\* waits for that session to end its transaction.

SameTeamKey(a, b) == a.code = b.code /\ a.scope = b.scope

SamePlayerKey(a, b) ==
    a.name = b.name /\ a.uniform_number = b.uniform_number /\ a.team_id = b.team_id

\* A uq_game that also names the doubleheader column.
SameGameKeyAndNumber(a, b) ==
    /\ a.date = b.date
    /\ a.visitor_team_id = b.visitor_team_id
    /\ a.home_team_id = b.home_team_id
    /\ a.start_time = b.start_time
    /\ a.doubleheader = b.doubleheader

\* uq_game: (date, visitor_team_id, home_team_id, start_time)
SameGameKey(a, b) ==
    /\ a.date = b.date
    /\ a.visitor_team_id = b.visitor_team_id
    /\ a.home_team_id = b.home_team_id
    /\ a.start_time = b.start_time

SameKey(t, a, b) ==
    CASE t = "teams" -> SameTeamKey(a, b)
      [] t = "players" -> SamePlayerKey(a, b)
      [] t = "games" -> SameGameKey(a, b)

\* A storage without the uniqueness constraints.
NoConstraint(p, t, row) == FALSE

\* The insert of `row` by p finds the key taken by a row that is committed
\* or that p's own transaction holds.
Violates(p, t, row) == \E r \in View(p)[t] : r.id # row.id /\ SameKey(t, r, row)

\* The insert of `row` by p has to wait for another session.
Waits(p, t, row) == \E q \in Procs \ {p} : \E r \in own[q][t] : SameKey(t, r, row)

\* The flush raised: the transaction is rolled back, the exception leaves
\* parse_game_xml, which catches nothing.
FlushRaises(p) ==
    /\ own' = [own EXCEPT ![p] = Empty]
    /\ End(p, "IntegrityError", 0)
    /\ UNCHANGED db

----------------------------------------------------------------------------
\* The loop over the team blocks, lines 75-91.

TeamBlock(p) == File(p).teams[ti[p]]

\* FindTeam without the league filter.
FindTeamAnyScope(p, code) == First({t \in View(p).teams : t.code = code})

\* Team.query.filter_by(code=code, league_id=league.id).first(), line 81
FindTeam(p, code) ==
    First({t \in View(p).teams : t.code = code /\ t.scope = Scope(p)})

\* Team(code=code, team_id=ext_id, name=name, league_id=league.id), line 83
NewTeam(p, blk) ==
    [id |-> NewId(own[p], "teams"), code |-> Get(blk.code, ""),
     team_id |-> Get(blk.id, ""), name |-> Get(blk.name, ""),
     abbreviation |-> "", scope |-> Scope(p), imp |-> cur[p].call]

\* team_map[vh] = value: a dict keeps the place of a key it already holds.
DictSet(m, e) ==
    IF \E i \in 1..Len(m) : m[i].vh = e.vh
    THEN [i \in 1..Len(m) |-> IF m[i].vh = e.vh THEN e ELSE m[i]]
    ELSE Append(m, e)

\* `if vh == "V": visitor_team = team  else: home_team = team`, lines 88-91
IsVisitor(vh) == vh = "V"

\* Lines 87-91 and the loop's advance.
Bind(p, team) ==
    LET blk == TeamBlock(p) IN
    /\ team_map' = [team_map EXCEPT ![p] =
                       DictSet(@, [vh |-> blk.vh, team |-> team, blk |-> ti[p]])]
    /\ IF IsVisitor(blk.vh)
       THEN visitor_team' = [visitor_team EXCEPT ![p] = team] /\ UNCHANGED home_team
       ELSE home_team' = [home_team EXCEPT ![p] = team] /\ UNCHANGED visitor_team
    /\ ti' = [ti EXCEPT ![p] = @ + 1]
    /\ pc' = [pc EXCEPT ![p] = IF ti[p] + 1 > Len(File(p).teams) THEN "guard" ELSE "team"]
    /\ UNCHANGED <<cur, game, log>>

\* Lines 76-82: the lookup of one team block.
LookupTeam(p) ==
    /\ pc[p] = "team"
    /\ LET team == FindTeam(p, Get(TeamBlock(p).code, "")) IN
       IF team # 0
       THEN Bind(p, team)
       ELSE /\ pc' = [pc EXCEPT ![p] = "team_add"]
            /\ UNCHANGED <<cur, Locals, log>>
    /\ UNCHANGED <<db, own, agg>>

\* Lines 83-85: db.session.add(team); db.session.flush(), then 87-91.
AddTeam(p) ==
    /\ pc[p] = "team_add"
    /\ LET team == NewTeam(p, TeamBlock(p)) IN
       /\ ~ Waits(p, "teams", team)
       /\ IF Violates(p, "teams", team)
          THEN FlushRaises(p)
          ELSE /\ own' = [own EXCEPT ![p] = Put(@, "teams", team)]
               /\ Bind(p, team.id)
               /\ UNCHANGED db
    /\ UNCHANGED agg

----------------------------------------------------------------------------
\* The duplicate check and the Game row, lines 93-123.

GameDate(p) == Get(File(p).date, "")
StartTime(p) == Get(File(p).start, "")

\* FindGame with the two team columns exchanged.
FindGameSwapped(p) ==
    First({g \in View(p).games :
             /\ g.date = GameDate(p)
             /\ g.visitor_team_id = home_team[p]
             /\ g.home_team_id = visitor_team[p]
             /\ g.start_time = StartTime(p)})

\* Game.query.filter_by(date, visitor_team_id, home_team_id, start_time).first()
FindGame(p) ==
    First({g \in View(p).games :
             /\ g.date = GameDate(p)
             /\ g.visitor_team_id = visitor_team[p]
             /\ g.home_team_id = home_team[p]
             /\ g.start_time = StartTime(p)})

\* Game(...), lines 107-121; doubleheader and the line totals take the
\* defaults of their columns (models.py 89, 99-106).
NewGame(p) ==
    [id |-> NewId(own[p], "games"), date |-> GameDate(p), start_time |-> StartTime(p),
     doubleheader |-> 0,
     visitor_team_id |-> visitor_team[p], home_team_id |-> home_team[p],
     visitor_runs |-> 0, visitor_hits |-> 0, visitor_errors |-> 0, visitor_lob |-> 0,
     home_runs |-> 0, home_hits |-> 0, home_errors |-> 0, home_lob |-> 0,
     imp |-> cur[p].call]

\* Guard without the return of an existing Game.
GuardNoReturn(p) ==
    /\ pc[p] = "guard"
    /\ IF visitor_team[p] = 0 \/ home_team[p] = 0
       THEN End(p, "ValueError", 0)
       ELSE /\ pc' = [pc EXCEPT ![p] = "game"]
            /\ UNCHANGED <<cur, Locals, log>>
    /\ UNCHANGED <<db, own, agg>>

\* Lines 93-104.
Guard(p) ==
    /\ pc[p] = "guard"
    /\ IF visitor_team[p] = 0 \/ home_team[p] = 0
       THEN \* raise ValueError("Could not find both visitor and home teams in XML")
            End(p, "ValueError", 0)
       ELSE IF FindGame(p) # 0
       THEN \* return existing
            End(p, "existing", FindGame(p))
       ELSE /\ pc' = [pc EXCEPT ![p] = "game"]
            /\ UNCHANGED <<cur, Locals, log>>
    /\ UNCHANGED <<db, own, agg>>

\* Lines 107-123: db.session.add(game); db.session.flush()
AddGame(p) ==
    /\ pc[p] = "game"
    /\ LET g == NewGame(p) IN
       /\ ~ Waits(p, "games", g)
       /\ IF Violates(p, "games", g)
          THEN FlushRaises(p)
          ELSE /\ own' = [own EXCEPT ![p] = Put(@, "games", g)]
               /\ game' = [game EXCEPT ![p] = g.id]
               /\ ti' = [ti EXCEPT ![p] = 1]
               /\ pc' = [pc EXCEPT ![p] = "side"]
               /\ UNCHANGED <<db, cur, visitor_team, home_team, team_map, log>>
    /\ UNCHANGED agg

----------------------------------------------------------------------------
\* One entry of team_map: line score and players, lines 126-293.  The
\* operators below take the session's own rows o and return them changed.

\* SetTotals with the two sides exchanged.
SetTotalsSwapped(p, o, g, vh, ls) ==
    LET row == RowById(Overlay(db, o).games, g) IN
    IF vh = "V"
    THEN Put(o, "games", [row EXCEPT !.home_runs = Int0(ls.runs),
                                     !.home_hits = Int0(ls.hits),
                                     !.home_errors = Int0(ls.errs),
                                     !.home_lob = Int0(ls.lob)])
    ELSE Put(o, "games", [row EXCEPT !.visitor_runs = Int0(ls.runs),
                                     !.visitor_hits = Int0(ls.hits),
                                     !.visitor_errors = Int0(ls.errs),
                                     !.visitor_lob = Int0(ls.lob)])

\* Lines 129-143: the Game's totals of the side.
SetTotals(p, o, g, vh, ls) ==
    LET row == RowById(Overlay(db, o).games, g) IN
    IF vh = "V"
    THEN Put(o, "games", [row EXCEPT !.visitor_runs = Int0(ls.runs),
                                     !.visitor_hits = Int0(ls.hits),
                                     !.visitor_errors = Int0(ls.errs),
                                     !.visitor_lob = Int0(ls.lob)])
    ELSE Put(o, "games", [row EXCEPT !.home_runs = Int0(ls.runs),
                                     !.home_hits = Int0(ls.hits),
                                     !.home_errors = Int0(ls.errs),
                                     !.home_lob = Int0(ls.lob)])

\* Lines 146-165: one <lineinn>.
OneInn(p, o, g, vh, li) ==
    LET inn_num == Int0(li.inn)
        score == Get(li.score, "0")
        existing_inn == First({r \in Overlay(db, o).innings :
                                  r.game_id = g /\ r.inning = inn_num})
    IN  IF existing_inn # 0
        THEN LET row == RowById(Overlay(db, o).innings, existing_inn) IN
             IF vh = "V"
             THEN Put(o, "innings", [row EXCEPT !.visitor_score = score])
             ELSE Put(o, "innings", [row EXCEPT !.home_score = score])
        ELSE Put(o, "innings",
                 [id |-> NewId(o, "innings"), game_id |-> g, inning |-> inn_num,
                  visitor_score |-> IF vh = "V" THEN score ELSE "0",
                  home_score |-> IF vh = "H" THEN score ELSE "0",
                  imp |-> cur[p].call])

RECURSIVE LineInns(_, _, _, _, _)
LineInns(p, o, g, vh, inns) ==
    IF inns = <<>> THEN o
    ELSE LineInns(p, OneInn(p, o, g, vh, Head(inns)), g, vh, Tail(inns))

\* Lines 127-165.
LineScore(p, o, g, vh, ls) ==
    IF ls.present THEN LineInns(p, SetTotals(p, o, g, vh, ls), g, vh, ls.lineinn) ELSE o

\* Player.query.filter_by(name, uniform_number, team_id).first(), lines 182-184
FindPlayer(o, name, uni, team) ==
    First({r \in Overlay(db, o).players :
             r.name = name /\ r.uniform_number = uni /\ r.team_id = team})

\* Backfills without the test of the stored id.
BackfillsAlways(ext_player_id, stored) == Truthy(ext_player_id)

\* `elif ext_player_id and not player.external_id`, line 198
Backfills(ext_player_id, stored) == Truthy(ext_player_id) /\ ~ Truthy(stored)

\* ResolvePlayer that brings a stored Player up to date with the file.
ResolvePlayerUpdates(p, o, team, px) ==
    LET name == Get(px.name, "")
        uni == Get(px.uni, "")
        ext == Get(px.playerId, "")
        found == FindPlayer(o, name, uni, team)
    IN  IF found = 0
        THEN LET new == [id |-> NewId(o, "players"), external_id |-> ext,
                         name |-> name, uniform_number |-> uni,
                         bats |-> Get(px.bats, ""), team_id |-> team,
                         imp |-> cur[p].call]
             IN  [o |-> Put(o, "players", new), id |-> new.id]
        ELSE LET row == RowById(Overlay(db, o).players, found) IN
             [o |-> Put(o, "players",
                        [row EXCEPT !.bats = Get(px.bats, ""),
                                    !.external_id = IF Backfills(ext, @) THEN ext ELSE @]),
              id |-> found]

\* Lines 181-199: find or create the player; the rows and the player's id.
ResolvePlayer(p, o, team, px) ==
    LET name == Get(px.name, "")
        uni == Get(px.uni, "")
        ext == Get(px.playerId, "")
        found == FindPlayer(o, name, uni, team)
    IN  IF found = 0
        THEN LET new == [id |-> NewId(o, "players"), external_id |-> ext,
                         name |-> name, uniform_number |-> uni,
                         bats |-> Get(px.bats, ""), team_id |-> team,
                         imp |-> cur[p].call]
             IN  [o |-> Put(o, "players", new), id |-> new.id]
        ELSE LET row == RowById(Overlay(db, o).players, found) IN
             IF Backfills(ext, row.external_id)
             THEN [o |-> Put(o, "players", [row EXCEPT !.external_id = ext]), id |-> found]
             ELSE [o |-> o, id |-> found]

\* A stat line's key columns.
StatRow(p, o, t, g, player, team) ==
    [id |-> NewId(o, t), game_id |-> g, player_id |-> player, team_id |-> team,
     imp |-> cur[p].call]

\* Lines 204-235
AddBatting(p, o, g, player, team, px) ==
    IF px.hitting.present
    THEN Put(o, "batting",
             [id |-> NewId(o, "batting"), game_id |-> g, player_id |-> player,
              team_id |-> team, ab |-> Int0(px.hitting.ab), r |-> Int0(px.hitting.r),
              h |-> Int0(px.hitting.h), rbi |-> Int0(px.hitting.rbi),
              doubles |-> Int0(px.hitting.double), imp |-> cur[p].call])
    ELSE o

\* Lines 237-252
AddFielding(p, o, g, player, team, px) ==
    IF px.fielding THEN Put(o, "fielding", StatRow(p, o, "fielding", g, player, team)) ELSE o

\* Lines 254-293
AddPitching(p, o, g, player, team, px) ==
    IF px.pitching.present
    THEN Put(o, "pitching",
             [id |-> NewId(o, "pitching"), game_id |-> g, player_id |-> player,
              team_id |-> team, ip |-> Float0(px.pitching.ip),
              h |-> Int0(px.pitching.h), er |-> Int0(px.pitching.er),
              bb |-> Int0(px.pitching.bb),
              win |-> Bool(Get(px.pitching.win, "")),
              loss |-> Bool(Get(px.pitching.loss, "")),
              save |-> Bool(Get(px.pitching.save, "")),
              imp |-> cur[p].call])
    ELSE o

\* A parser without the test of gp.
NeverSkips(px) == FALSE

\* `if gp == 0: continue`, lines 201-202
DidNotPlay(px) == Int0(px.gp) = 0

\* Lines 168-293: one <player>.
OnePlayer(p, o, g, team, px) ==
    LET res == ResolvePlayer(p, o, team, px) IN
    IF DidNotPlay(px) THEN res.o
    ELSE AddPitching(p,
           AddFielding(p,
             AddBatting(p, res.o, g, res.id, team, px),
             g, res.id, team, px),
           g, res.id, team, px)

RECURSIVE Players(_, _, _, _, _)
Players(p, o, g, team, pxs) ==
    IF pxs = <<>> THEN o
    ELSE Players(p, OnePlayer(p, o, g, team, Head(pxs)), g, team, Tail(pxs))

\* A player of the side that the session does not see and that another
\* session has added and not committed: the flush of line 197 waits.
SideWaits(p, team, pxs) ==
    \E i \in 1..Len(pxs) :
        LET key == [name |-> Get(pxs[i].name, ""), uniform_number |-> Get(pxs[i].uni, ""),
                    team_id |-> team]
        IN  /\ FindPlayer(own[p], key.name, key.uniform_number, team) = 0
            /\ Waits(p, "players", key)

\* One turn of `for vh, (team, team_xml) in team_map.items()`, lines 126-293.
WriteSide(p) ==
    /\ pc[p] = "side"
    /\ LET e == team_map[p][ti[p]]
           blk == File(p).teams[e.blk]
       IN  /\ ~ SideWaits(p, e.team, blk.players)
           /\ own' = [own EXCEPT ![p] =
                        Players(p, LineScore(p, @, game[p], e.vh, blk.linescore),
                                game[p], e.team, blk.players)]
    /\ ti' = [ti EXCEPT ![p] = @ + 1]
    /\ pc' = [pc EXCEPT ![p] = IF ti[p] + 1 > Len(team_map[p]) THEN "plays" ELSE "side"]
    /\ UNCHANGED <<db, cur, visitor_team, home_team, team_map, game, log, agg>>

----------------------------------------------------------------------------
\* Play-by-play, lines 295-334.

\* Lines 311-317: the narrative text, synthesized from <sub> when empty.
Narrative(pl) ==
    LET narrative == Get(pl.narrative, "") IN
    IF pl.sub.present /\ ~ Truthy(narrative)
    THEN Get(pl.sub.who, "") \o " to " \o Get(pl.sub.pos, "") \o " for "
           \o Get(pl.sub.for, "") \o "."
    ELSE narrative

\* A parser that stores every play.
KeptAll(narrative, batter) == TRUE

\* `if narrative or batter`, line 322
Kept(narrative, batter) == Truthy(narrative) \/ Truthy(batter)

\* Lines 305-334: one <play>.
OnePlay(p, o, g, pl) ==
    LET batter == Get(pl.batter, "")
        narrative == Narrative(pl)
    IN  IF Kept(narrative, batter)
        THEN Put(o, "plays",
                 [id |-> NewId(o, "plays"), game_id |-> g, inning |-> Int0(pl.number),
                  half |-> IF pl.vh = "V" THEN "top" ELSE "bottom",
                  sequence |-> Int0(pl.seq), batter_name |-> batter,
                  narrative |-> narrative, imp |-> cur[p].call])
        ELSE o

RECURSIVE Plays(_, _, _, _)
Plays(p, o, g, pls) ==
    IF pls = <<>> THEN o ELSE Plays(p, OnePlay(p, o, g, Head(pls)), g, Tail(pls))

WritePlays(p) ==
    /\ pc[p] = "plays"
    /\ own' = [own EXCEPT ![p] = Plays(p, @, game[p], File(p).plays)]
    /\ pc' = [pc EXCEPT ![p] = "commit"]
    /\ UNCHANGED <<db, cur, Locals, log, agg>>

\* Lines 336-337: db.session.commit(); return game
Commit(p) ==
    /\ pc[p] = "commit"
    /\ db' = Overlay(db, own[p])
    /\ own' = [own EXCEPT ![p] = Empty]
    /\ End(p, "created", game[p])
    /\ UNCHANGED agg

\* An exception that no flush raised leaves parse_game_xml after the Game
\* row was flushed (line 123).  The function has no try and rolls nothing
\* back: the session keeps its open transaction.
Interrupted(p) ==
    /\ pc[p] \in {"side", "plays", "commit"}
    /\ End(p, "interrupted", 0)
    /\ UNCHANGED <<db, own, agg>>

----------------------------------------------------------------------------
\* The game forms of the configuration pages (routes.py 303-337).  A form
\* field is the text the browser posted, None when the field was not posted.
\* The handlers run in the session of their request and end with
\* db.session.commit(); the flush of the commit applies uq_game.

CreateForms ==
    [visitor_team_id : {None, "1"}, home_team_id : {"1", "2"},
     date : {None, "d1"}, start_time : {"s1"}, doubleheader : {None, "1"}]

EditForms ==
    [visitor_team_id : {None, "1"}, home_team_id : {None},
     date : {None, "d1", "d2"}, start_time : {None, "s1"}, doubleheader : {None}]

\* A handler of session p ends: what it did, and the Game it wrote.
Handled(p, handler, outcome, ret) ==
    log' = Append(log, [req |-> <<handler, 0>>, proc |-> p, outcome |-> outcome,
                        ret |-> ret, at |-> handler])

\* db.session.commit() of a handler that added or changed the Game `row`.
CommitGame(p, handler, row) ==
    IF Violates(p, "games", row)
    THEN \* IntegrityError: the transaction is rolled back, the request fails
         /\ own' = [own EXCEPT ![p] = Empty]
         /\ Handled(p, handler, "IntegrityError", 0)
         /\ UNCHANGED db
    ELSE /\ db' = Overlay(db, Put(own[p], "games", row))
         /\ own' = [own EXCEPT ![p] = Empty]
         /\ Handled(p, handler, "committed", row.id)

\* configure_game_create, routes.py 303-323
configure_game_create(p, form) ==
    /\ pc[p] = "idle"
    /\ Len(log) < MaxCalls
    /\ IF ~ Truthy(form.visitor_team_id) \/ ~ Truthy(form.home_team_id)
       THEN \* flash("Both teams are required.", "error")
            /\ Handled(p, "configure_game_create", "redirect", 0)
            /\ UNCHANGED <<db, own>>
       ELSE CommitGame(p, "configure_game_create",
                [id |-> NewId(own[p], "games"), date |-> Get(form.date, ""),
                 start_time |-> Get(form.start_time, ""),
                 doubleheader |-> IntOfNumeral(Get(form.doubleheader, "0")),
                 visitor_team_id |-> IntOfNumeral(form.visitor_team_id),
                 home_team_id |-> IntOfNumeral(form.home_team_id),
                 visitor_runs |-> 0, visitor_hits |-> 0, visitor_errors |-> 0,
                 visitor_lob |-> 0, home_runs |-> 0, home_hits |-> 0,
                 home_errors |-> 0, home_lob |-> 0, imp |-> Len(log) + 1])
    /\ UNCHANGED <<pc, cur, Locals, agg>>

\* configure_game_edit, routes.py 326-337
configure_game_edit(p, game_id, form) ==
    /\ pc[p] = "idle"
    /\ Len(log) < MaxCalls
    /\ IF game_id \notin {g.id : g \in View(p).games}
       THEN \* Game.query.get_or_404(game_id)
            /\ Handled(p, "configure_game_edit", "404", 0)
            /\ UNCHANGED <<db, own>>
       ELSE LET row == RowById(View(p).games, game_id) IN
            CommitGame(p, "configure_game_edit",
                [row EXCEPT
                   !.date = Get(form.date, row.date),
                   !.visitor_team_id =
                       IF form.visitor_team_id = None THEN row.visitor_team_id
                       ELSE IntOfNumeral(form.visitor_team_id),
                   !.home_team_id =
                       IF form.home_team_id = None THEN row.home_team_id
                       ELSE IntOfNumeral(form.home_team_id),
                   !.start_time = Get(form.start_time, row.start_time),
                   !.doubleheader =
                       IF form.doubleheader = None THEN row.doubleheader
                       ELSE IntOfNumeral(form.doubleheader)])
    /\ UNCHANGED <<pc, cur, Locals, agg>>

----------------------------------------------------------------------------
\* The statistics aggregators, routes.py 17-120.  An aggregator is a pure
\* function of a list of stat lines; `stats` is the list, `table` the stat
\* table its lines are rows of, `totals` what the call returned.  A float is
\* a quotient num/den of integers; innings pitched, which the files and the
\* storage hold with one decimal (4.1), is the integer number of tenths (41).
\* The lines are such that no quotient lies half-way between two printed
\* values unless it is a binary fraction, which Python rounds to even.

StatTables == {"batting", "pitching", "fielding"}

\* Season.rules, models.py 9
RuleSets == {"rules_hs_sb", "rules_mlb"}

BattingLines ==
    {l \in [game_id : {1, 2}, ab : {0, 3}, h : {0, 3}, doubles : {0, 1},
            triples : {0, 1}, hr : {0, 1}, bb : {0, 1}, hbp : {0, 1}, sf : {0, 1}] :
        /\ l.h <= l.ab
        /\ l.doubles + l.triples + l.hr <= 1
        /\ l.doubles + l.triples + l.hr <= l.h
        /\ l.bb + l.hbp + l.sf <= 1}

PitchingLines ==
    [game_id : {1, 2}, ip : {0, 1, 32, 41}, h : {0}, er : {0, 4}, bb : {0, 1},
     win : {FALSE}, loss : {FALSE}, save : {FALSE}]

FieldingLines == [game_id : {1, 2}, po : 0..2, a : 0..1, e : 0..1]

LinesOf(t) ==
    CASE t = "batting" -> BattingLines
      [] t = "pitching" -> PitchingLines
      [] t = "fielding" -> FieldingLines

\* The `return None` of an aggregator handed no line.
NoTotals == [ret |-> "None"]

\* sum(s.f for s in stats)
RECURSIVE Sum(_, _)
Sum(lines, f) == IF lines = <<>> THEN 0 ELSE Head(lines)[f] + Sum(Tail(lines), f)

\* GamesPlayed counting the lines.
GamesPlayedLines(lines) == Len(lines)

\* len(set(s.game_id for s in stats))
GamesPlayed(lines) == Cardinality({lines[i].game_id : i \in DOMAIN lines})

RECURSIVE Pow10(_)
Pow10(d) == IF d = 0 THEN 1 ELSE 10 * Pow10(d - 1)

\* Rounding towards zero.
RoundDown(num, den) == num \div den

\* The integer nearest to num/den, the even one of two equally near: the
\* rounding of round() and of the format specification.
RoundHalfEven(num, den) ==
    LET q == num \div den
        r == num % den
    IN  IF 2 * r < den THEN q
        ELSE IF 2 * r > den THEN q + 1
        ELSE IF q % 2 = 0 THEN q ELSE q + 1

\* The last d decimal digits of n.
RECURSIVE Digits(_, _)
Digits(n, d) == IF d = 0 THEN "" ELSE Digits(n \div 10, d - 1) \o ToString(n % 10)

\* f"{num / den:.{d}f}"
Fixed(num, den, d) ==
    LET n == RoundHalfEven(num * Pow10(d), den) IN
    ToString(n \div Pow10(d)) \o "." \o Digits(n % Pow10(d), d)

\* _aggregate_batting, routes.py 17-56
aggregate_batting(stats_query) ==
    IF stats_query = <<>> THEN NoTotals
    ELSE LET ab == Sum(stats_query, "ab")
             h == Sum(stats_query, "h")
             doubles == Sum(stats_query, "doubles")
             triples == Sum(stats_query, "triples")
             hr == Sum(stats_query, "hr")
             bb == Sum(stats_query, "bb")
             hbp == Sum(stats_query, "hbp")
             sf == Sum(stats_query, "sf")
             singles == h - doubles - triples - hr
             tb == singles + 2 * doubles + 3 * triples + 4 * hr
             denom == ab + bb + hbp + sf
             \* obp_val and slg_val, 0.0 for a zero denominator
             obp_val == IF denom > 0 THEN <<h + bb + hbp, denom>> ELSE <<0, 1>>
             slg_val == IF ab > 0 THEN <<tb, ab>> ELSE <<0, 1>>
         IN  [ret |-> "totals", gp |-> GamesPlayed(stats_query),
              ab |-> ab, h |-> h, doubles |-> doubles, triples |-> triples, hr |-> hr,
              bb |-> bb, hbp |-> hbp, sf |-> sf,
              avg |-> IF ab > 0 THEN Fixed(h, ab, 3) ELSE ".000",
              obp |-> IF denom > 0 THEN Fixed(h + bb + hbp, denom, 3) ELSE ".000",
              slg |-> IF ab > 0 THEN Fixed(tb, ab, 3) ELSE ".000",
              ops |-> Fixed(obp_val[1] * slg_val[2] + slg_val[1] * obp_val[2],
                            obp_val[2] * slg_val[2], 3)]

\* Thirds reading the stored value as a number of tenths of an inning.
ThirdsOfTenths(ip) == (3 * ip) \div 10

\* ip_full * 3 + ip_frac, routes.py 66-69: ip_full = int(s.ip),
\* ip_frac = round((s.ip - ip_full) * 10)
Thirds(ip) == (ip \div 10) * 3 + RoundHalfEven(ip % 10, 1)

RECURSIVE TotalThirds(_)
TotalThirds(lines) ==
    IF lines = <<>> THEN 0 ELSE Thirds(Head(lines).ip) + TotalThirds(Tail(lines))

\* ip_display, routes.py 71-73
IpDisplay(total_thirds) ==
    LET ip_display_full == total_thirds \div 3
        ip_display_frac == total_thirds % 3
    IN  IF ip_display_frac # 0
        THEN ToString(ip_display_full) \o "." \o ToString(ip_display_frac)
        ELSE ToString(ip_display_full)

\* sum(1 for s in stats_list if s.win)
RECURSIVE CountIf(_, _)
CountIf(lines, f) ==
    IF lines = <<>> THEN 0
    ELSE (IF Head(lines)[f] THEN 1 ELSE 0) + CountIf(Tail(lines), f)

\* _aggregate_pitching, routes.py 59-102
aggregate_pitching(stats_list) ==
    IF stats_list = <<>> THEN NoTotals
    ELSE LET total_thirds == TotalThirds(stats_list)
             h == Sum(stats_list, "h")
             er == Sum(stats_list, "er")
             bb == Sum(stats_list, "bb")
         IN  [ret |-> "totals", gp |-> GamesPlayed(stats_list),
              ip |-> IpDisplay(total_thirds), h |-> h, er |-> er, bb |-> bb,
              w |-> CountIf(stats_list, "win"), l |-> CountIf(stats_list, "loss"),
              sv |-> CountIf(stats_list, "save"),
              era |-> IF total_thirds > 0 THEN Fixed(er * 7 * 3, total_thirds, 2)
                      ELSE "0.00",
              \* (bb + h) / (total_thirds / 3)
              whip |-> IF total_thirds > 0 THEN Fixed((bb + h) * 3, total_thirds, 2)
                       ELSE "0.00"]

\* Fpct with the default of the batting rates.
FpctZero(po, a, tc) == IF tc > 0 THEN Fixed(po + a, tc, 3) ELSE ".000"

\* totals["fpct"], routes.py 119
Fpct(po, a, tc) == IF tc > 0 THEN Fixed(po + a, tc, 3) ELSE "1.000"

\* _aggregate_fielding, routes.py 105-120
aggregate_fielding(stats_list) ==
    IF stats_list = <<>> THEN NoTotals
    ELSE LET po == Sum(stats_list, "po")
             a == Sum(stats_list, "a")
             e == Sum(stats_list, "e")
             tc == po + a + e
         IN  [ret |-> "totals", gp |-> GamesPlayed(stats_list),
              po |-> po, a |-> a, e |-> e, tc |-> tc, fpct |-> Fpct(po, a, tc)]

\* The caller's query returns one more line (routes.py 361, 370, 407-413).
Collect(line) ==
    /\ totals = NotCalled
    /\ Len(stats) < MaxLines
    /\ stats' = Append(stats, line)
    /\ UNCHANGED <<table, rules, totals, page, imports>>

AggregateBatting ==
    /\ totals = NotCalled
    /\ table = "batting"
    /\ totals' = aggregate_batting(stats)
    /\ UNCHANGED <<table, rules, stats, page, imports>>

AggregatePitching ==
    /\ totals = NotCalled
    /\ table = "pitching"
    /\ totals' = aggregate_pitching(stats)
    /\ UNCHANGED <<table, rules, stats, page, imports>>

AggregateFielding ==
    /\ totals = NotCalled
    /\ table = "fielding"
    /\ totals' = aggregate_fielding(stats)
    /\ UNCHANGED <<table, rules, stats, page, imports>>

----------------------------------------------------------------------------
\* The pages (routes.py 353-516).  A page request reads the committed rows.

\* abort(404)
NotFound == [view |-> "404"]

\* The rows of S in the order of their primary keys.
RECURSIVE ById(_)
ById(S) ==
    IF S = {} THEN <<>>
    ELSE LET r == CHOOSE x \in S : \A y \in S : x.id <= y.id
         IN  <<r>> \o ById(S \ {r})

\* player_detail, routes.py 404-428: the pitching totals of the page.
player_detail(player_id) ==
    /\ page' = IF ~ \E r \in db.players : r.id = player_id
               THEN NotFound
               ELSE LET pitching_games ==
                            ById({r \in db.pitching : r.player_id = player_id})
                    IN  [view |-> "player_detail", player |-> player_id,
                         pitching_agg |-> aggregate_pitching(pitching_games)]
    /\ UNCHANGED <<table, rules, stats, totals, imports>>

\* The texts of the team form's abbreviation field, and str.strip().
Abbreviations == {"CC", "CC ", "DD", "D_D"}

Strip(text) == IF text = "CC " THEN "CC" ELSE text

\* text.split('_'): the pieces of a text of the model.
Pieces(text) == IF text = "D_D" THEN <<"D", "D">> ELSE <<text>>

TeamForms == [name : {None}, code : {None}, abbreviation : {None} \cup Abbreviations]

\* configure_team_edit, routes.py 225-242.  The fields of the form that the
\* model's Team rows do not carry are left out.
configure_team_edit(p, team_id, form) ==
    /\ pc[p] = "idle"
    /\ IF ~ \E t \in View(p).teams : t.id = team_id
       THEN \* get_or_404
            UNCHANGED <<db, own>>
       ELSE LET team == RowById(View(p).teams, team_id)
                row == [team EXCEPT
                          !.name = Strip(Get(form.name, team.name)),
                          !.code = Strip(Get(form.code, team.code)),
                          !.abbreviation = Strip(Get(form.abbreviation, team.abbreviation))]
            IN  \* db.session.commit()
                /\ db' = Overlay(db, Put(own[p], "teams", row))
                /\ own' = [own EXCEPT ![p] = Empty]
    /\ UNCHANGED <<pc, cur, Locals, log, agg>>

\* The administrative deletes (routes.py 183-193, 295-300, 340-347).  The
\* storage is SQLite as config.py sets it up: NOT NULL is enforced, foreign
\* keys are not (no PRAGMA foreign_keys), and a rowid that the table's
\* highest row gave up is handed out again.

\* Player.query.filter_by(team_id=team.id).delete(); db.session.delete(team):
\* the bulk DELETE of the players runs no cascade and touches no stat
\* row; Team has no relationship to Game or to the stat tables.
DeleteTeam(v, team_id) ==
    [v EXCEPT !.players = {r \in @ : r.team_id # team_id},
              !.teams = {r \in @ : r.id # team_id}]

\* configure_player_delete, routes.py 295-300.  Player.batting_stats,
\* pitching_stats and fielding_stats declare no cascade (models.py 67-69):
\* the flush sets the player_id of the Player's stat rows to NULL, which
\* their NOT NULL columns refuse.
configure_player_delete(p, player_id) ==
    /\ pc[p] = "idle"
    /\ LET v == View(p) IN
       IF ~ \E r \in v.players : r.id = player_id
       THEN \* get_or_404
            UNCHANGED <<db, own>>
       ELSE IF \E t \in {"batting", "pitching", "fielding"} :
                  \E r \in v[t] : r.player_id = player_id
       THEN \* IntegrityError: the transaction is rolled back
            /\ own' = [own EXCEPT ![p] = Empty]
            /\ UNCHANGED db
       ELSE /\ db' = [v EXCEPT !.players = {r \in @ : r.id # player_id}]
            /\ own' = [own EXCEPT ![p] = Empty]
    /\ UNCHANGED <<pc, cur, Locals, log, agg>>

\* configure_team_delete, routes.py 340-347
configure_team_delete(p, team_id) ==
    /\ pc[p] = "idle"
    /\ LET v == View(p) IN
       IF ~ \E r \in v.teams : r.id = team_id
       THEN \* get_or_404
            UNCHANGED <<db, own>>
       ELSE /\ db' = DeleteTeam(v, team_id)
            /\ own' = [own EXCEPT ![p] = Empty]
    /\ UNCHANGED <<pc, cur, Locals, log, agg>>

RECURSIVE DeleteTeams(_, _)
DeleteTeams(v, ids) ==
    IF ids = {} THEN v
    ELSE LET team_id == CHOOSE i \in ids : TRUE
         IN  DeleteTeams(DeleteTeam(v, team_id), ids \ {team_id})

\* configure_season_delete, routes.py 183-193.  The Season rows are not
\* part of the store of the model: the handler's writes to the Team and
\* Player tables are.
configure_season_delete(p, season_id) ==
    /\ pc[p] = "idle"
    /\ db' = DeleteTeams(View(p), {t.id : t \in {r \in View(p).teams : r.scope = season_id}})
    /\ own' = [own EXCEPT ![p] = Empty]
    /\ UNCHANGED <<pc, cur, Locals, log, agg>>

\* The date texts of the form YYYY-MM-DD and the MMDDYYYY of each:
\* parts[1] + parts[2] + parts[0] of date.split('-'), models.py 124-126.
\* Every other date text of the files is shorter than 10 characters.
IsoDates == {"2024-03-05"}

\* Game.slug, models.py 119-131.  A slug is held as the pieces that
\* split('_') cuts its text into.
Slug(v, g) ==
    LET date_str == IF g.date \in IsoDates THEN "03052024" ELSE "00000000"
        visitor == {t \in v.teams : t.id = g.visitor_team_id}
        home == {t \in v.teams : t.id = g.home_team_id}
        vis_abbr == IF \E t \in visitor : t.abbreviation # ""
                    THEN (CHOOSE t \in visitor : TRUE).abbreviation ELSE "VIS"
        home_abbr == IF \E t \in home : t.abbreviation # ""
                     THEN (CHOOSE t \in home : TRUE).abbreviation ELSE "HOM"
        dh == g.doubleheader
    IN  <<date_str>> \o Pieces(vis_abbr) \o Pieces(home_abbr) \o <<ToString(dh)>>

\* f"{date_str[4:8]}-{date_str[0:2]}-{date_str[2:4]}", routes.py 447-448
DateDb(date_str) == IF date_str = "03052024" THEN "2024-03-05" ELSE "0000-00-00"

\* The orders in which a query ordered by Play.sequence may return rows:
\* rows of equal sequence come in any order.
BySequence(S) ==
    {q \in [1..Cardinality(S) -> S] :
        /\ \A i, j \in DOMAIN q : i # j => q[i] # q[j]
        /\ \A i, j \in DOMAIN q : i < j => q[i].sequence <= q[j].sequence}

\* game_detail, routes.py 430-516: the Game the URL resolves to and its
\* plays.  `season` is the Season whose slug the URL names.
game_detail(season, game_slug) ==
    /\ IF Len(game_slug) # 4
       THEN page' = NotFound
       ELSE LET date_db == DateDb(game_slug[1])
                vis_abbr == game_slug[2]
                home_abbr == game_slug[3]
                dh_num == Int0(game_slug[4])
                season_teams == {t \in db.teams : t.scope = season}
                vis_team == First({t \in season_teams : t.abbreviation = vis_abbr})
                home_team_ == First({t \in season_teams : t.abbreviation = home_abbr})
                found == First({g \in db.games : /\ g.date = date_db
                                                  /\ g.visitor_team_id = vis_team
                                                  /\ g.home_team_id = home_team_
                                                  /\ g.doubleheader = dh_num})
            IN  IF vis_team = 0 \/ home_team_ = 0 \/ found = 0
                THEN page' = NotFound
                ELSE \E plays \in BySequence({r \in db.plays : r.game_id = found}) :
                        page' = [view |-> "game_detail", game |-> found, plays |-> plays]
    /\ UNCHANGED <<table, rules, stats, totals, imports>>

----------------------------------------------------------------------------
Step(p) ==
    \/ \E r \in Requests : Begin(p, r)
    \/ LookupTeam(p)
    \/ AddTeam(p)
    \/ Guard(p)
    \/ AddGame(p)
    \/ WriteSide(p)
    \/ WritePlays(p)
    \/ Commit(p)
    \/ Interrupted(p)

\* One session: a caller that imports file after file.
Next == Step(1)

Spec == Init /\ [][Next]_vars

\* Two sessions, each in a process of its own, importing files that describe
\* games of the same two teams.
ConcRequests == {"g1", "g1b", "g2"} \X {1}

StepConc(p) ==
    \/ \E r \in ConcRequests : Begin(p, r)
    \/ LookupTeam(p)
    \/ AddTeam(p)
    \/ Guard(p)
    \/ AddGame(p)
    \/ WriteSide(p)
    \/ WritePlays(p)
    \/ Commit(p)
    \/ Interrupted(p)

NextConc == \E p \in Procs : StepConc(p)

SpecConc == Init /\ [][NextConc]_vars

\* One session that imports files and serves the game forms.
GameIds == {1, 2}

AdminRequests == {"g1", "g2"} \X {1}

NextAdmin ==
    \/ \E r \in AdminRequests : Begin(1, r)
    \/ LookupTeam(1)
    \/ AddTeam(1)
    \/ Guard(1)
    \/ AddGame(1)
    \/ WriteSide(1)
    \/ WritePlays(1)
    \/ Commit(1)
    \/ Interrupted(1)
    \/ \E form \in CreateForms : configure_game_create(1, form)
    \/ \E game_id \in GameIds, form \in EditForms : configure_game_edit(1, game_id, form)

SpecAdmin == Init /\ [][NextAdmin]_vars

\* One session that imports box scores, and the player pages.
BoxRequests == {"box1", "box2"} \X {1}

PlayerIds == 1..5

NextBox ==
    \/ \E r \in BoxRequests : Begin(1, r)
    \/ LookupTeam(1)
    \/ AddTeam(1)
    \/ Guard(1)
    \/ AddGame(1)
    \/ WriteSide(1)
    \/ WritePlays(1)
    \/ Commit(1)
    \/ Interrupted(1)
    \/ \E player_id \in PlayerIds : player_detail(player_id)

SpecBox == Init /\ [][NextBox]_vars

\* One session that imports box scores, each import running to its end,
\* and edits teams, and the game pages.
TeamIds == {1, 2}

\* The game slugs of the URLs asked for, as split('_') cuts them.
GameSlugs ==
    {<<date_str, vis_abbr, home_abbr, "0">> :
        date_str \in {"03052024", "00000000"},
        vis_abbr \in {"VIS", "CC", "DD"},
        home_abbr \in {"HOM", "CC", "DD"}}
      \cup {<<"03052024", "CC", "D", "D", "0">>, <<"03052024", "D", "D", "CC", "0">>}

NextView ==
    \/ \E r \in BoxRequests : Begin(1, r)
    \/ LookupTeam(1)
    \/ AddTeam(1)
    \/ Guard(1)
    \/ AddGame(1)
    \/ WriteSide(1)
    \/ WritePlays(1)
    \/ Commit(1)
    \/ \E team_id \in TeamIds, form \in TeamForms : configure_team_edit(1, team_id, form)
    \/ \E game_slug \in GameSlugs : game_detail(1, game_slug)

SpecView == Init /\ [][NextView]_vars

\* One session that imports files, each import running to its end, and
\* serves the administrative deletes.
SeasonIds == {1}

NextDelete ==
    \/ \E r \in AdminRequests : Begin(1, r)
    \/ LookupTeam(1)
    \/ AddTeam(1)
    \/ Guard(1)
    \/ AddGame(1)
    \/ WriteSide(1)
    \/ WritePlays(1)
    \/ Commit(1)
    \/ \E player_id \in PlayerIds : configure_player_delete(1, player_id)
    \/ \E team_id \in TeamIds : configure_team_delete(1, team_id)
    \/ \E season_id \in SeasonIds : configure_season_delete(1, season_id)

SpecDelete == Init /\ [][NextDelete]_vars

\* The aggregators applied to the lines of one table of one season.
InitAgg ==
    /\ db = Empty
    /\ own = [p \in Procs |-> Empty]
    /\ pc = [p \in Procs |-> "idle"]
    /\ cur = [p \in Procs |-> [req |-> <<"g1", 1>>, call |-> 0]]
    /\ ti = [p \in Procs |-> 0]
    /\ visitor_team = [p \in Procs |-> 0]
    /\ home_team = [p \in Procs |-> 0]
    /\ team_map = [p \in Procs |-> <<>>]
    /\ game = [p \in Procs |-> 0]
    /\ log = <<>>
    /\ table \in StatTables
    /\ rules \in IF table = "pitching" THEN RuleSets ELSE {"rules_hs_sb"}
    /\ stats = <<>>
    /\ totals = NotCalled
    /\ page = NoPage

NextAgg ==
    \/ \E line \in LinesOf(table) : Collect(line)
    \/ AggregateBatting
    \/ AggregatePitching
    \/ AggregateFielding

SpecAgg == InitAgg /\ [][NextAgg]_vars

----------------------------------------------------------------------------
\* Vocabulary of the properties.

Counts(v) == [t \in Tables |-> Cardinality(v[t])]

Succeeded(c) == log[c].outcome \in {"created", "existing"}

\* The code of the file's last team block marked vh, None without one.
CodeOf(f, vh) ==
    LET S == {i \in 1..Len(f.teams) : f.teams[i].vh = vh} IN
    IF S = {} THEN None ELSE Get(f.teams[SetMax(S)].code, "")

\* The Games of v that carry the game key of file f in a scope.
KeyGames(v, f, scope) ==
    {g \in v.games :
        /\ g.date = Get(f.date, "")
        /\ g.start_time = Get(f.start, "")
        /\ \E tv \in v.teams, th \in v.teams :
              /\ tv.id = g.visitor_team_id /\ tv.code = CodeOf(f, "V") /\ tv.scope = scope
              /\ th.id = g.home_team_id /\ th.code = CodeOf(f, "H") /\ th.scope = scope}

\* The rows of v that belong to Game g.
Children(v, g) == [t \in ChildTables |-> {r \in v[t] : r.game_id = g}]

----------------------------------------------------------------------------
\* C1: importing the same file content twice in a row into the same scope,
\* the first import having returned a Game: no step of the second import
\* changes the number of rows of any table (Team, Player, Game, InningScore,
\* the three stat tables, Play), the second import returns the Game of the
\* first, and the store holds exactly one Game row with that Game's key.
C1_Repeats(p) ==
    /\ pc[p] # "idle"
    /\ cur[p].call > 1
    /\ log[cur[p].call - 1].req = cur[p].req
    /\ Succeeded(cur[p].call - 1)

C1_IdempotentImport ==
    [][\A p \in {1} :
          C1_Repeats(p) =>
             /\ Counts(View(p))' = Counts(View(p))
             /\ pc'[p] = "idle" =>
                  LET first == log[cur[p].call - 1].ret
                      v == View(p)'
                  IN  /\ log'[cur[p].call].outcome = "existing"
                      /\ log'[cur[p].call].ret = first
                      /\ Cardinality({g \in v.games :
                                        SameGameKey(g, RowById(v.games, first))}) = 1]_vars

C1_Witness ==
    \E c \in DOMAIN log :
        /\ c > 1
        /\ log[c].req = log[c - 1].req
        /\ log[c - 1].outcome = "created"
        /\ log[c].outcome = "existing"
        /\ Children(db, log[c].ret).batting # {}
        /\ Children(db, log[c].ret).plays # {}

\* C2: while a call imports a file whose game key (date, visitor team, home
\* team, start time) an earlier call has stored, no step changes any Game,
\* InningScore, stat-line, Play or Player row, and the call returns the
\* stored Game.
Frame(v) == [t \in {"games", "players"} \cup ChildTables |-> v[t]]

C2_KeyStored(p) ==
    /\ pc[p] # "idle"
    /\ \E g \in KeyGames(View(p), File(p), Scope(p)) : g.imp # cur[p].call

C2_DuplicateIsNoOp ==
    [][\A p \in {1} :
          C2_KeyStored(p) =>
             /\ Frame(View(p))' = Frame(View(p))
             /\ pc'[p] = "idle" =>
                  /\ log'[cur[p].call].outcome = "existing"
                  /\ \E g \in KeyGames(View(p), File(p), Scope(p)) :
                        log'[cur[p].call].ret = g.id]_vars

C2_Witness ==
    \E c \in DOMAIN log, b \in DOMAIN log :
        /\ b < c
        /\ log[b].req = <<"g1", 1>> /\ log[b].outcome = "created"
        /\ log[c].req = <<"g1b", 1>> /\ log[c].outcome = "existing"
        /\ log[c].ret = log[b].ret

\* C3: no Game, InningScore, stat-line or Play row created by a call that
\* failed after its Game row was flushed is ever among the committed rows.
C3_FailedImportLeavesNothing ==
    \A t \in {"games"} \cup ChildTables : \A r \in db[t] :
        log[r.imp].outcome \notin {"interrupted", "IntegrityError"}

\* C4: no row of any table created by a call that rejected its file as
\* malformed (ValueError) is ever among the committed rows.
C4_RejectedFileWritesNothing ==
    \A t \in Tables : \A r \in db[t] : log[r.imp].outcome # "ValueError"

\* The game key a request asks to import, as the file states it.
ReqKey(r) ==
    LET f == FileOf(r[1]) IN
    <<Get(f.date, ""), Get(f.start, ""), CodeOf(f, "V"), CodeOf(f, "H"), r[2]>>

\* C5: under any interleaving of two sessions, the committed store never
\* holds two Games with the same key (date, visitor, home, start time), every
\* committed child row belongs to a committed Game and was written by the
\* call that wrote that Game, and at most one of the calls asking for one
\* game key ends having created the Game.
C5_OneWriterPerGame ==
    /\ \A g \in db.games, h \in db.games : SameGameKey(g, h) => g.id = h.id
    /\ \A t \in ChildTables : \A r \in db[t] :
          \E g \in db.games : g.id = r.game_id /\ g.imp = r.imp
    /\ \A c \in DOMAIN log, d \in DOMAIN log :
          /\ log[c].outcome = "created" /\ log[d].outcome = "created"
          /\ ReqKey(log[c].req) = ReqKey(log[d].req)
          => c = d

\* Two sessions asked for the same game, both passed the duplicate lookup
\* (the teams were stored before, the loser's flush of its Game raised), one
\* created the Game and its children.
C5_Witness ==
    \E c \in DOMAIN log, d \in DOMAIN log :
        /\ log[c].proc # log[d].proc
        /\ ReqKey(log[c].req) = ReqKey(log[d].req)
        /\ log[c].outcome = "created"
        /\ log[d].outcome = "IntegrityError" /\ log[d].at = "game"
        /\ \E g \in db.games : g.imp = c /\ Children(db, g.id).batting # {}

\* C6: once a batch of three files of which one was reported malformed and
\* the two others were imported has run, in whatever order, each imported
\* file has its Game and children committed, and no row created by the call
\* that reported the malformed file is committed.
C6_BatchIsolation ==
    (/\ \A p \in Procs : pc[p] = "idle"
     /\ Len(log) = 3
     /\ Cardinality({c \in DOMAIN log : log[c].outcome = "ValueError"}) = 1
     /\ Cardinality({c \in DOMAIN log : log[c].outcome = "created"}) = 2)
    => \A c \in DOMAIN log :
          /\ log[c].outcome = "created" =>
                \E g \in db.games :
                    /\ g.id = log[c].ret /\ g.imp = c
                    /\ \A t \in ChildTables : \A r \in db[t] : r.imp = c => r.game_id = g.id
          /\ log[c].outcome = "ValueError" =>
                \A t \in Tables : \A r \in db[t] : r.imp # c

\* C7: in every state the session sees at most one Team per (code, scope)
\* and at most one Player per (name, uniform number, team); every team block
\* of a file whose import returned has its Team in the scope of the import,
\* and every player block of a file whose import created the Game has its
\* Player in the Team of its side.
C7_Seen(v, c) ==
    LET f == FileOf(log[c].req[1])
        scope == log[c].req[2]
    IN  \A i \in 1..Len(f.teams) :
          \E t \in v.teams :
            /\ t.code = Get(f.teams[i].code, "") /\ t.scope = scope
            /\ log[c].outcome = "created" =>
                 \A j \in 1..Len(f.teams[i].players) :
                    \E pl \in v.players :
                       /\ pl.name = Get(f.teams[i].players[j].name, "")
                       /\ pl.uniform_number = Get(f.teams[i].players[j].uni, "")
                       /\ pl.team_id = t.id

C7_EntityDedup ==
    LET v == View(1) IN
    /\ \A a \in v.teams, b \in v.teams : SameTeamKey(a, b) => a = b
    /\ \A a \in v.players, b \in v.players : SamePlayerKey(a, b) => a = b
    /\ \A c \in DOMAIN log : Succeeded(c) => C7_Seen(v, c)

C7_Witness ==
    /\ \E c \in DOMAIN log, d \in DOMAIN log, e \in DOMAIN log :
          /\ log[c].req = <<"g1", 1>> /\ log[c].outcome = "created"
          /\ log[d].req = <<"g2", 1>> /\ log[d].outcome = "created"
          /\ log[e].req = <<"g1", 2>> /\ log[e].outcome = "created"
    /\ Cardinality({t \in db.teams : t.code = "A"}) = 2
    /\ Cardinality({pl \in db.players : pl.name = "p1"}) = 2

\* C8: a Player's external id, once non-empty, is the same in every later
\* state; and the step that writes a side of a new game gives every stored
\* Player of that side who has no external id the first non-empty id the
\* side's player blocks supply for him.
C8_Supplied(pxs, row) ==
    {i \in 1..Len(pxs) :
        /\ Get(pxs[i].name, "") = row.name
        /\ Get(pxs[i].uni, "") = row.uniform_number
        /\ Truthy(Get(pxs[i].playerId, ""))}

C8_ExternalId ==
    [][\A p \in {1} :
          /\ \A a \in View(p).players :
                Truthy(a.external_id) =>
                   \A b \in View(p)'.players : b.id = a.id => b.external_id = a.external_id
          /\ (pc[p] = "side" /\ pc'[p] # "idle") =>
                LET e == team_map[p][ti[p]]
                    pxs == File(p).teams[e.blk].players
                IN  \A a \in View(p).players :
                       (/\ a.team_id = e.team
                        /\ ~ Truthy(a.external_id)
                        /\ C8_Supplied(pxs, a) # {})
                       => \E b \in View(p)'.players :
                             /\ b.id = a.id
                             /\ b.external_id =
                                  pxs[CHOOSE i \in C8_Supplied(pxs, a) :
                                        \A j \in C8_Supplied(pxs, a) : i <= j].playerId]_vars

\* Player p1, stored by g1 without an external id, carries the id that g2
\* supplied; p2, stored by g1 with e2, keeps it although g2 supplied e9.
C8_Witness ==
    /\ \E c \in DOMAIN log, d \in DOMAIN log :
          /\ c < d
          /\ log[c].req = <<"g1", 1>> /\ log[c].outcome = "created"
          /\ log[d].req = <<"g2", 1>> /\ log[d].outcome = "created"
          /\ \E a \in db.players : a.name = "p1" /\ a.imp = c /\ a.external_id = "e1"
          /\ \E a \in db.players : a.name = "p2" /\ a.imp = c /\ a.external_id = "e2"

\* C9: a call whose file has no venue block, fewer than two team blocks, or
\* a team block whose vh is neither "V" nor "H" creates no Game and ends
\* with a ValueError.
C9_Malformed(f) ==
    \/ ~ f.venue
    \/ Len(f.teams) < 2
    \/ \E i \in 1..Len(f.teams) : f.teams[i].vh \notin {"V", "H"}

C9_MalformedIsRejected ==
    \A c \in DOMAIN log :
        C9_Malformed(FileOf(log[c].req[1])) =>
           /\ log[c].outcome \in {"running", "ValueError"}
           /\ \A p \in Procs : \A g \in View(p).games : g.imp # c

\* C10: when the imports of two files that state the same date, teams and
\* start time and different doubleheader numbers have both returned, the
\* store holds two Games with that key.
C10_DoubleheaderKey ==
    \A c \in DOMAIN log, d \in DOMAIN log :
        (/\ Succeeded(c) /\ Succeeded(d)
         /\ ReqKey(log[c].req) = ReqKey(log[d].req)
         /\ FileOf(log[c].req[1]).dhgame # FileOf(log[d].req[1]).dhgame)
        => Cardinality(KeyGames(View(1), FileOf(log[c].req[1]), log[c].req[2])) >= 2

\* C11: after any sequence of file imports, game creations
\* (configure_game_create) and game edits (configure_game_edit), no two
\* stored Game rows have the same date, visitor team, home team and start
\* time.
C11_KeyOf(g) == <<g.date, g.visitor_team_id, g.home_team_id, g.start_time>>

C11_GameKeyUnique ==
    \A v \in {db, View(1)} :
        \A g \in v.games, h \in v.games : C11_KeyOf(g) = C11_KeyOf(h) => g.id = h.id

\* An imported Game and a Game made on the form are stored; a form asked for
\* the key of a stored Game and its commit raised.
C11_Witness ==
    /\ \E g \in db.games, h \in db.games :
          /\ log[g.imp].outcome = "created"
          /\ log[h.imp].at = "configure_game_create"
    /\ \E c \in DOMAIN log :
          /\ log[c].at \in {"configure_game_create", "configure_game_edit"}
          /\ log[c].outcome = "IntegrityError"

\* C12: the value returned by an import that created its Game differs from
\* the value returned by an import that found the Game stored.  The value
\* is the Game object: its columns.
C12_Returned(c) ==
    LET g == RowById(View(1).games, log[c].ret) IN
    [f \in DOMAIN g \ {"imp"} |-> g[f]]

C12_ReturnTellsNewFromStored ==
    \A c \in DOMAIN log, d \in DOMAIN log :
        (log[c].outcome = "created" /\ log[d].outcome = "existing")
        => C12_Returned(c) # C12_Returned(d)

\* C13: once an import has created its Game, the Game's visitor runs, hits,
\* errors and left-on-base are the integer values of the attributes of the
\* line score of the file's visitor block and the home ones those of the
\* home block's, and the batting lines of the Game are, player block by
\* player block, the integer values of the hitting block's attributes; the
\* integer value of an absent, empty or non-numeric attribute is 0.
C13_Int(val) == IF val \in Numerals THEN IntOfNumeral(val) ELSE 0

\* The file's last block marked vh, 0 without one.
C13_Block(f, vh) == SetMax({i \in 1..Len(f.teams) : f.teams[i].vh = vh})

C13_Totals(ls) ==
    IF ls.present
    THEN <<C13_Int(ls.runs), C13_Int(ls.hits), C13_Int(ls.errs), C13_Int(ls.lob)>>
    ELSE <<0, 0, 0, 0>>

\* The hitting blocks of the side's players who played.
C13_Hitting(pxs) ==
    {i \in 1..Len(pxs) : C13_Int(pxs[i].gp) # 0 /\ pxs[i].hitting.present}

C13_LineOf(row, hitting) ==
    /\ row.ab = C13_Int(hitting.ab)
    /\ row.r = C13_Int(hitting.r)
    /\ row.h = C13_Int(hitting.h)
    /\ row.rbi = C13_Int(hitting.rbi)
    /\ row.doubles = C13_Int(hitting.double)

C13_ValuesAsInFile ==
    \A c \in DOMAIN log :
        log[c].outcome = "created" =>
           LET f == FileOf(log[c].req[1])
               g == RowById(db.games, log[c].ret)
               v == C13_Block(f, "V")
               h == C13_Block(f, "H")
           IN  /\ v # 0 =>
                     <<g.visitor_runs, g.visitor_hits, g.visitor_errors, g.visitor_lob>>
                        = C13_Totals(f.teams[v].linescore)
               /\ h # 0 =>
                     <<g.home_runs, g.home_hits, g.home_errors, g.home_lob>>
                        = C13_Totals(f.teams[h].linescore)
               /\ \A i \in 1..Len(f.teams) :
                     LET pxs == f.teams[i].players
                         side == IF f.teams[i].vh = "V" THEN g.visitor_team_id
                                 ELSE g.home_team_id
                         rows == {r \in db.batting : r.game_id = g.id /\ r.team_id = side}
                     IN  /\ \A j \in C13_Hitting(pxs) :
                               \E r \in rows :
                                  /\ C13_LineOf(r, pxs[j].hitting)
                                  /\ RowById(db.players, r.player_id).name = pxs[j].name
                         /\ i \in {v, h} =>
                               \A r \in rows : \E j \in C13_Hitting(pxs) :
                                  /\ C13_LineOf(r, pxs[j].hitting)
                                  /\ RowById(db.players, r.player_id).name = pxs[j].name

\* The three files of the catalogue are imported: their line scores and
\* hitting blocks hold numerals, empty, absent and non-numeric attributes.
C13_Witness ==
    /\ \E c \in DOMAIN log : log[c].req = <<"g1", 1>> /\ log[c].outcome = "created"
    /\ \E c \in DOMAIN log :
          /\ log[c].req = <<"g2", 1>> /\ log[c].outcome = "created"
          /\ \E r \in db.batting : r.imp = c /\ r.rbi = 1 /\ r.ab = 0
    /\ \E g \in db.games : g.visitor_runs = 0 /\ g.home_runs = 5 /\ g.home_hits = 7
    /\ \E r \in db.batting : r.ab = 3 /\ r.h = 3 /\ r.rbi = 3 /\ r.doubles = 1

----------------------------------------------------------------------------
\* Vocabulary of the aggregator properties.

\* An aggregator was called and returned a totals record.
Aggregated(t) == table = t /\ totals.ret = "totals"

\* n hundredths and n thousandths, printed.
Hundredths(n) ==
    ToString(n \div 100) \o "." \o ToString((n \div 10) % 10) \o ToString(n % 10)

Thousandths(n) ==
    ToString(n \div 1000) \o "." \o ToString((n \div 100) % 10)
       \o ToString((n \div 10) % 10) \o ToString(n % 10)

\* n/scale is a value nearest to num/den among the multiples of 1/scale.
Nearest(n, scale, num, den) ==
    /\ 2 * (n * den - scale * num) <= den
    /\ 2 * (scale * num - n * den) <= den

\* The text shows num/den rounded to two, to three decimals.
Shows2(text, num, den) ==
    \E n \in {(100 * num) \div den, (100 * num) \div den + 1} :
        text = Hundredths(n) /\ Nearest(n, 100, num, den)

Shows3(text, num, den) ==
    \E n \in {(1000 * num) \div den, (1000 * num) \div den + 1} :
        text = Thousandths(n) /\ Nearest(n, 1000, num, den)

\* The total of the lines' innings in thirds: three per whole inning and
\* one per tenth.
RECURSIVE ThirdsOfLines(_)
ThirdsOfLines(lines) ==
    IF lines = <<>> THEN 0
    ELSE 3 * (Head(lines).ip \div 10) + (Head(lines).ip % 10)
           + ThirdsOfLines(Tail(lines))

\* C14: _aggregate_pitching over lines without an out (total thirds 0)
\* reports the ERA "0.00" when no earned run was given up, and when earned
\* runs were given up a value that is the printed form of no number.
C14_NumericEras == {Hundredths(n) : n \in 0..(MaxLines * 4 * 9 * 3 * 100)}

C14_EraWithoutInnings ==
    (Aggregated("pitching") /\ ThirdsOfLines(stats) = 0)
    => IF Sum(stats, "er") = 0 THEN totals.era = "0.00"
       ELSE totals.era \notin C14_NumericEras

\* C15: over lines whose innings have the outs digit 0, 1 or 2,
\* _aggregate_pitching shows the total T of thirds as T div 3, followed by
\* "." and T mod 3 only when T mod 3 is not 0.
C15_InningsInThirds ==
    (/\ Aggregated("pitching")
     /\ \A i \in DOMAIN stats : stats[i].ip % 10 \in {0, 1, 2})
    => LET T == ThirdsOfLines(stats) IN
       totals.ip = IF T % 3 = 0 THEN ToString(T \div 3)
                   ELSE ToString(T \div 3) \o "." \o ToString(T % 3)

\* Lines of 4.1 and 3.2 innings: 24 thirds, shown as "8".
C15_Witness ==
    /\ Aggregated("pitching")
    /\ {stats[i].ip : i \in DOMAIN stats} = {41, 32}
    /\ Len(stats) = 2
    /\ totals.ip = "8"

\* C16: the ERA of _aggregate_pitching over lines with outs is
\* (earned runs * R * 3) / total thirds, printed with two decimals, R being
\* the regulation innings of the ruleset of the lines' season: 9 for
\* rules_mlb and rules_ncaa_ba, 7 for the other rulesets.
C16_RegulationInnings(r) == IF r \in {"rules_mlb", "rules_ncaa_ba"} THEN 9 ELSE 7

C16_EraByRuleset ==
    (Aggregated("pitching") /\ ThirdsOfLines(stats) > 0)
    => Shows2(totals.era, Sum(stats, "er") * C16_RegulationInnings(rules) * 3,
              ThirdsOfLines(stats))

\* C17: over a non-empty list, with singles = H - 2B - 3B - HR and total
\* bases = singles + 2*2B + 3*3B + 4*HR, _aggregate_batting shows AVG = H/AB
\* and OBP = (H+BB+HBP)/(AB+BB+HBP+SF) rounded to three decimals, ".000"
\* when the denominator is 0, and, when AB > 0, SLG = total bases/AB and
\* OPS = OBP + SLG rounded to three decimals.
C17_BattingRates ==
    Aggregated("batting") =>
       LET ab == Sum(stats, "ab")
           h == Sum(stats, "h")
           bb == Sum(stats, "bb")
           hbp == Sum(stats, "hbp")
           singles == h - Sum(stats, "doubles") - Sum(stats, "triples") - Sum(stats, "hr")
           tb == singles + 2 * Sum(stats, "doubles") + 3 * Sum(stats, "triples")
                   + 4 * Sum(stats, "hr")
           denom == ab + bb + hbp + Sum(stats, "sf")
       IN  /\ IF ab > 0 THEN Shows3(totals.avg, h, ab) ELSE totals.avg = ".000"
           /\ IF denom > 0 THEN Shows3(totals.obp, h + bb + hbp, denom)
              ELSE totals.obp = ".000"
           /\ ab > 0 =>
                 /\ Shows3(totals.slg, tb, ab)
                 /\ Shows3(totals.ops, (h + bb + hbp) * ab + tb * denom, denom * ab)

\* One line with AB 3, H 3, one double: AVG "1.000", SLG "1.333".
C17_Witness ==
    /\ Aggregated("batting")
    /\ Len(stats) = 1
    /\ stats[1].ab = 3 /\ stats[1].h = 3 /\ stats[1].doubles = 1
    /\ stats[1].bb = 1
    /\ totals.avg = "1.000" /\ totals.slg = "1.333" /\ totals.ops = "2.333"

\* C18: every call of an aggregator, the call with no line included,
\* returns a totals record, in which every rate with a zero denominator has
\* its default: ".000" for AVG, OBP and SLG, "0.00" for WHIP and for the ERA
\* without earned runs, "1.000" for FPCT.
C18_TotalsAlways ==
    totals # NotCalled =>
       /\ totals.ret = "totals"
       /\ table = "batting" =>
             /\ Sum(stats, "ab") = 0 => totals.avg = ".000" /\ totals.slg = ".000"
             /\ Sum(stats, "ab") + Sum(stats, "bb") + Sum(stats, "hbp")
                  + Sum(stats, "sf") = 0 => totals.obp = ".000"
       /\ (table = "pitching" /\ ThirdsOfLines(stats) = 0) =>
             /\ totals.whip = "0.00"
             /\ Sum(stats, "er") = 0 => totals.era = "0.00"
       /\ (table = "fielding" /\ Sum(stats, "po") + Sum(stats, "a") + Sum(stats, "e") = 0)
             => totals.fpct = "1.000"

\* C19: over a non-empty list _aggregate_fielding reports TC = PO + A + E
\* and FPCT = (PO + A)/TC rounded to three decimals, "1.000" when TC is 0.
C19_Fielding ==
    Aggregated("fielding") =>
       LET po == Sum(stats, "po")
           a == Sum(stats, "a")
           tc == po + a + Sum(stats, "e")
       IN  /\ totals.tc = tc
           /\ IF tc > 0 THEN Shows3(totals.fpct, po + a, tc) ELSE totals.fpct = "1.000"

\* Lines without a chance.
C19_Witness ==
    /\ Aggregated("fielding")
    /\ Len(stats) = 2
    /\ totals.tc = 0
    /\ totals.fpct = "1.000"

\* C20: the games played in the totals of each aggregator is the number of
\* different game ids among the lines.
C20_GamesPlayed ==
    totals.ret = "totals" =>
       totals.gp = Cardinality({stats[i].game_id : i \in DOMAIN stats})

\* Two lines of one game.
C20_Witness ==
    /\ Aggregated("pitching")
    /\ Len(stats) = 2
    /\ stats[1].game_id = stats[2].game_id
    /\ totals.gp = 1

----------------------------------------------------------------------------
\* The box scores: vocabulary.

\* The <player> blocks of file f, with the place of each in its <team>.
BlocksOf(f) ==
    {[team |-> i, at |-> j, px |-> f.teams[i].players[j]] :
        <<i, j>> \in {x \in (1..Len(f.teams)) \X (1..4) :
                        x[2] <= Len(f.teams[x[1]].players)}}

\* The blocks of f whose player appeared in the game.
PlayingBlocks(f) == {b \in BlocksOf(f) : C13_Int(b.px.gp) # 0}

\* The calls that created a Game and committed it.
Created == {c \in 1..Len(log) : log[c].outcome = "created"}

NameOfPlayer(id) == RowById(db.players, id).name

\* C21: a stored pitching line's win, loss and save flags are true exactly
\* when the attribute is present and not empty, whatever its text (win="N"
\* reads as true), and the W, L and SV of the aggregated pitching totals
\* are the numbers of lines whose flag is true.
C21_Flag(text) == text # None /\ text # ""

C21_FlagsOfFile(f) ==
    {<<b.px.name, C21_Flag(b.px.pitching.win), C21_Flag(b.px.pitching.loss),
       C21_Flag(b.px.pitching.save)>> :
         b \in {x \in PlayingBlocks(f) : x.px.pitching.present}}

C21_FlagsStored(c) ==
    {<<NameOfPlayer(r.player_id), r.win, r.loss, r.save>> :
         r \in {x \in db.pitching : x.imp = c}}

C21_Counted(v, agg_, id) ==
    LET lines == {r \in v.pitching : r.player_id = id} IN
    IF lines = {} THEN agg_ = NoTotals
    ELSE /\ agg_.w = Cardinality({r \in lines : r.win})
         /\ agg_.l = Cardinality({r \in lines : r.loss})
         /\ agg_.sv = Cardinality({r \in lines : r.save})

C21_FlagsByPresence ==
    /\ [](\A c \in Created : C21_FlagsStored(c) = C21_FlagsOfFile(FileOf(log[c].req[1])))
    /\ [][\A id \in PlayerIds :
            player_detail(id) /\ page'.view = "player_detail"
               => C21_Counted(db, page'.pitching_agg, id)]_vars

\* The page of q1 after both box scores: a win read from win="N", a loss
\* and a save.
C21_Witness ==
    /\ page.view = "player_detail"
    /\ NameOfPlayer(page.player) = "q1"
    /\ \E r \in db.pitching : r.player_id = page.player /\ r.win /\ r.imp = 1
                                /\ log[1].req[1] = "box1"
    /\ page.pitching_agg.ret = "totals"
    /\ page.pitching_agg.w = 1
    /\ page.pitching_agg.l = 1
    /\ page.pitching_agg.sv = 1

\* C22: after any sequence of imports no two BattingStats rows share
\* (game, player, team), and likewise for PitchingStats and FieldingStats,
\* also when a team block lists two player blocks with the same name and
\* uniform number.
C22_StatKeyUnique ==
    \A t \in {"batting", "pitching", "fielding"} :
        \A a \in db[t], b \in db[t] :
            a.game_id = b.game_id /\ a.player_id = b.player_id /\ a.team_id = b.team_id
               => a.id = b.id

\* The Team of call c that file block i names.
TeamOfBlock(c, i) ==
    First({t \in db.teams : t.code = Get(FileOf(log[c].req[1]).teams[i].code, "")
                              /\ t.scope = log[c].req[2]})

\* The stored Players that block b of call c's file names.
PlayersOfBlock(c, b) ==
    {r \in db.players : /\ r.name = Get(b.px.name, "")
                          /\ r.uniform_number = Get(b.px.uni, "")
                          /\ r.team_id = TeamOfBlock(c, b.team)}

HasSub(px, t) ==
    CASE t = "batting" -> px.hitting.present
      [] t = "fielding" -> px.fielding
      [] t = "pitching" -> px.pitching.present

\* C23: a player block whose gp coerces to 0 yields the stored Player row,
\* created when it was missing, and no BattingStats, PitchingStats or
\* FieldingStats row for that game, also when the block has hitting,
\* pitching or fielding sub-blocks.
C23_BenchedHasNoLine ==
    \A c \in Created :
        LET f == FileOf(log[c].req[1]) IN
        \A b \in BlocksOf(f) \ PlayingBlocks(f) :
            /\ Cardinality(PlayersOfBlock(c, b)) = 1
            /\ \A r \in PlayersOfBlock(c, b) :
                   \A t \in {"batting", "pitching", "fielding"} :
                       Cardinality({x \in db[t] : x.game_id = log[c].ret
                                                  /\ x.player_id = r.id})
                         = Cardinality({x \in PlayingBlocks(f) :
                                           /\ x.team = b.team
                                           /\ x.px.name = b.px.name
                                           /\ x.px.uni = b.px.uni
                                           /\ HasSub(x.px, t)})

\* box1 stored: q3, whose block has no gp and all three sub-blocks, is a
\* Player created by the import without any stat row.
C23_Witness ==
    \E c \in Created :
        /\ log[c].req[1] = "box1"
        /\ \E r \in db.players :
              /\ r.name = "q3" /\ r.imp = c
              /\ \A t \in {"batting", "pitching", "fielding"} :
                     ~ \E x \in db[t] : x.player_id = r.id

\* The block of f bound as the visitor ("V") or as the home side, 0 if none.
C24_Block(f, side) ==
    SetMax({i \in 1..Len(f.teams) : (f.teams[i].vh = "V") <=> (side = "V")})

\* The <lineinn> entries of the side's line score.
C24_Entries(f, side) ==
    LET i == C24_Block(f, side) IN
    IF i = 0 THEN <<>>
    ELSE IF f.teams[i].linescore.present THEN f.teams[i].linescore.lineinn ELSE <<>>

\* The side's score text of inning n: '0' without an entry.
C24_Score(f, side, n) ==
    LET es == C24_Entries(f, side)
        S == {k \in 1..Len(es) : C13_Int(es[k].inn) = n}
    IN  IF S = {} THEN "0" ELSE Get(es[SetMax(S)].score, "0")

C24_Innings(f) ==
    {C13_Int(C24_Entries(f, "V")[k].inn) : k \in 1..Len(C24_Entries(f, "V"))}
      \cup {C13_Int(C24_Entries(f, "H")[k].inn) : k \in 1..Len(C24_Entries(f, "H"))}

\* C24: a game has at most one InningScore row per inning number, also when
\* a line score repeats a number, and for every inning number of either
\* side's line score the row holds the visitor block's score text as
\* visitor_score and the home block's as home_score, '0' for a side without
\* an entry for the inning.
C24_InningRows ==
    /\ \A a \in db.innings, b \in db.innings :
           a.game_id = b.game_id /\ a.inning = b.inning => a.id = b.id
    /\ \A c \in Created :
           LET f == FileOf(log[c].req[1]) IN
           \A n \in C24_Innings(f) :
               \E r \in db.innings :
                   /\ r.game_id = log[c].ret
                   /\ r.inning = n
                   /\ r.visitor_score = C24_Score(f, "V", n)
                   /\ r.home_score = C24_Score(f, "H", n)

\* C25: every stored PitchingStats row has its ip in the mixed-radix form,
\* a whole number of innings and a first decimal digit of 0, 1 or 2 with
\* no further fraction, for every text of the ip attribute.  (The model
\* holds ip as a whole number of tenths.)
C25_IpMixedRadix ==
    \A r \in db.pitching : r.ip % 10 \in {0, 1, 2}

\* a comes before b, or beside it, in the order of inning, half (top before
\* bottom) and sequence.
C26_NotAfter(a, b) ==
    \/ a.inning < b.inning
    \/ /\ a.inning = b.inning
       /\ \/ a.half = "top" /\ b.half = "bottom"
          \/ a.half = b.half /\ a.sequence <= b.sequence

\* C26: the plays of a game are read back in the order of (inning, half
\* with top before bottom, sequence), in Game.plays and in the game detail
\* view, also when the file numbers the plays anew in each inning or half.
C26_PlaysInGameOrder ==
    page.view = "game_detail" =>
       \A i, j \in DOMAIN page.plays : i < j => C26_NotAfter(page.plays[i], page.plays[j])

\* The narrative of a play after the synthesis from its <sub> element.
C27_Narrative(pl) ==
    IF pl.narrative # None /\ pl.narrative # "" THEN pl.narrative
    ELSE IF pl.sub.present
    THEN Get(pl.sub.who, "") \o " to " \o Get(pl.sub.pos, "") \o " for "
           \o Get(pl.sub.for, "") \o "."
    ELSE ""

\* What the stored plays of file f are to be: inning, half, sequence,
\* batter and narrative of each play with a narrative or a batter.
C27_PlaysOfFile(f) ==
    {<<C13_Int(f.plays[k].number), IF f.plays[k].vh = "V" THEN "top" ELSE "bottom",
       C13_Int(f.plays[k].seq), Get(f.plays[k].batter, ""), C27_Narrative(f.plays[k])>> :
         k \in {i \in 1..Len(f.plays) :
                   \/ C27_Narrative(f.plays[i]) # ""
                   \/ f.plays[i].batter # None /\ f.plays[i].batter # ""}}

C27_PlaysStored(g) ==
    {<<r.inning, r.half, r.sequence, r.batter_name, r.narrative>> :
         r \in {x \in db.plays : x.game_id = g}}

\* C27: a Play row is stored exactly for the plays that, after the
\* synthesis, have a narrative text or a batter; a play with neither is
\* dropped, and a play with a sub element and no narrative is stored with
\* the narrative '<who> to <pos> for <for>.'.
C27_PlaysKept ==
    \A c \in Created :
        /\ C27_PlaysStored(log[c].ret) = C27_PlaysOfFile(FileOf(log[c].req[1]))
        /\ Cardinality({x \in db.plays : x.game_id = log[c].ret})
             = Cardinality(C27_PlaysOfFile(FileOf(log[c].req[1])))

\* box1 stored: the substitution is a Play with the synthesized narrative,
\* the play with only a batter is kept, and the two plays without batter
\* and narrative are not stored.
C27_Witness ==
    \E c \in Created :
        /\ log[c].req[1] = "box1"
        /\ \E r \in db.plays : r.game_id = log[c].ret /\ r.narrative = "r1 to lf for r2."
                                /\ r.batter_name = ""
        /\ \E r \in db.plays : r.game_id = log[c].ret /\ r.narrative = ""
                                /\ r.batter_name = "q3"
        /\ \E r \in db.plays : r.game_id = log[c].ret /\ r.narrative = "pinch"
        /\ ~ \E r \in db.plays : r.game_id = log[c].ret /\ r.inning = 1 /\ r.sequence = 3
        /\ ~ \E r \in db.plays : r.game_id = log[c].ret /\ r.inning = 2 /\ r.half = "bottom"

\* C28: after any sequence of imports and administrative deletes
\* (configure_player_delete, configure_team_delete, configure_season_delete)
\* every BattingStats, PitchingStats and FieldingStats row references a
\* Player row and a Team row that exist, and every Game references a
\* visitor Team and a home Team that exist.
C28_ReferencesExist ==
    /\ \A t \in {"batting", "pitching", "fielding"} :
           \A r \in db[t] :
               /\ \E x \in db.players : x.id = r.player_id
               /\ \E x \in db.teams : x.id = r.team_id
    /\ \A g \in db.games :
           /\ \E x \in db.teams : x.id = g.visitor_team_id
           /\ \E x \in db.teams : x.id = g.home_team_id

\* The Games whose two teams belong to the season.
C29_GamesOf(season) ==
    {g \in db.games :
        /\ \E t \in db.teams : t.id = g.visitor_team_id /\ t.scope = season
        /\ \E t \in db.teams : t.id = g.home_team_id /\ t.scope = season}

\* C29: for every stored Game whose teams belong to a season, the Games
\* created by an import included, the game detail page asked with the
\* season's slug and the Game's own slug answers with that same Game, and
\* two distinct Games of one season never have the same slug.
C29_SlugRoundTrip ==
    /\ [][\A season \in SeasonIds :
            \A g \in C29_GamesOf(season) :
                game_detail(season, Slug(db, g))
                   => page'.view = "game_detail" /\ page'.game = g.id]_vars
    /\ [](\A season \in SeasonIds :
            \A a \in C29_GamesOf(season), b \in C29_GamesOf(season) :
                a.id # b.id => Slug(db, a) # Slug(db, b))

\* Where the round trip does hold: one stored Game, and its two teams given
\* the abbreviations CC and DD.
C29_ResolvesWithAbbreviations ==
    [][\A season \in SeasonIds :
          \A g \in C29_GamesOf(season) :
              game_detail(season, Slug(db, g))
                 /\ (\A t \in db.teams : t.abbreviation \in {"CC", "DD"})
                 /\ Cardinality({t.abbreviation : t \in db.teams}) = 2
                 /\ Cardinality(db.games) = 1
                 => page'.view = "game_detail" /\ page'.game = g.id]_vars

\* C30: an import that resolves a Team or a Player that is already stored
\* leaves every stored attribute of it as it is, but for the Player's
\* external id, which may be set while it is empty: the other team name or
\* external team id, or the other bats of a later file never overwrite
\* the stored values.
C30_ResolvedIsKept ==
    [][\A p \in {1} :
          pc[p] # "idle" =>
             /\ \A a \in View(p).teams : \A b \in View(p)'.teams :
                    b.id = a.id => b = a
             /\ \A a \in View(p).players : \A b \in View(p)'.players :
                    b.id = a.id =>
                       /\ [b EXCEPT !.external_id = a.external_id] = a
                       /\ b.external_id # a.external_id => a.external_id = ""]_vars

\* box1 then box2, which names team C "Charlies" with id "yc" and gives
\* q1 bats "S" and the id e9, r1 bats "L" and the id e8: the Team and the
\* Players are those of box1, q1 with the external id that the second of
\* his blocks in box1 supplied.
C30_Witness ==
    \E c \in Created, d \in Created :
        /\ c < d
        /\ log[c].req[1] = "box1"
        /\ log[d].req[1] = "box2"
        /\ \E t \in db.teams : /\ t.code = "C" /\ t.imp = c
                                /\ t.name = "Cees" /\ t.team_id = "xc"
        /\ \E a \in db.players : /\ a.name = "q1" /\ a.imp = c
                                  /\ a.bats = "R" /\ a.external_id = "e5"
        /\ \E a \in db.players : /\ a.name = "r1" /\ a.imp = c
                                  /\ a.bats = "R" /\ a.external_id = "e7"
        /\ \E r \in db.batting : r.imp = d

====
